---- MODULE Spec2Model ----
(***************************************************************************)
(* Model of packages/api/normalize.ts: the source classifier               *)
(* (normalizeEntries), the four shape normalizers (normalizeSourceA..D)    *)
(* and the consistency validator (validateEntry, validateCalories).        *)
(*                                                                         *)
(* JavaScript values are records [t, n, s]: t is the kind of value, n the  *)
(* numeric value and s the characters of a string.  A number x is held as  *)
(* the integer 10*x (one decimal digit is kept), so that parseFloat("2.5") *)
(* has a value of its own; every comparison the code makes is invariant    *)
(* under that scaling.  A string is the sequence of its characters.        *)
(***************************************************************************)
EXTENDS Integers, Sequences, FiniteSets, TLC

\* ------------------------------------------------------------------ bounds
\* Longest batch handed to normalizeEntries.
MaxBatch == 2
\* Numeric macros of the sampled Shape A / D records range over -1..MaxMacro grams.
MaxMacro == 1
\* Declared calories of the sampled Shape A / D records range over -MaxCal..MaxCal kcal.
MaxCal == 13
\* Longest nutrient list of the sampled Shape C records.
MaxNutrients == 4

\* --------------------------------------------------------------- JS values
Undefined == [t |-> "undefined", n |-> 0, s |-> <<>>]
Null == [t |-> "null", n |-> 0, s |-> <<>>]
NaN == [t |-> "nan", n |-> 0, s |-> <<>>]
Infinity == [t |-> "inf", n |-> 0, s |-> <<>>]
\* The number i/10.
Tenths(i) == [t |-> "number", n |-> i, s |-> <<>>]
\* The whole number i.
Num(i) == Tenths(i * 10)
Str(cs) == [t |-> "string", n |-> 0, s |-> cs]

\* typeof v (null is an object in JavaScript).
TypeOf(v) ==
    CASE v.t \in {"number", "nan", "inf"} -> "number"
      [] v.t = "string" -> "string"
      [] v.t = "undefined" -> "undefined"
      [] OTHER -> "object"

\* v == null (true of null and of undefined).
IsNullish(v) == v.t \in {"undefined", "null"}

\* ----------------------------------------------------------------- strings
Digits == {"0", "1", "2", "3", "4", "5", "6", "7", "8", "9"}

DigitVal(c) ==
    CASE c = "0" -> 0 [] c = "1" -> 1 [] c = "2" -> 2 [] c = "3" -> 3
      [] c = "4" -> 4 [] c = "5" -> 5 [] c = "6" -> 6 [] c = "7" -> 7
      [] c = "8" -> 8 [] c = "9" -> 9

IsSpace(c) == c = " "

\* String.prototype.toLowerCase, on the letters the sampled strings use.
LowerChar(c) ==
    CASE c = "G" -> "g" [] c = "M" -> "m" [] c = "L" -> "l" [] c = "T" -> "t"
      [] c = "P" -> "p" [] c = "C" -> "c" [] c = "F" -> "f" [] c = "E" -> "e"
      [] OTHER -> c

ToLowerCase(cs) == [i \in DOMAIN cs |-> LowerChar(cs[i])]

\* cs.substring(from - 1, to): the characters from..to (1-based, inclusive).
Slice(cs, from, to) == IF from > to THEN <<>> ELSE SubSeq(cs, from, to)

\* Number of characters of cs, starting at position i, that satisfy the class.
RECURSIVE DigitRun(_, _)
DigitRun(cs, i) ==
    IF i <= Len(cs) /\ cs[i] \in Digits THEN 1 + DigitRun(cs, i + 1) ELSE 0

RECURSIVE SpaceRun(_, _)
SpaceRun(cs, i) ==
    IF i <= Len(cs) /\ IsSpace(cs[i]) THEN 1 + SpaceRun(cs, i + 1) ELSE 0

RECURSIVE SpaceRunBack(_, _)
SpaceRunBack(cs, i) ==
    IF i >= 1 /\ IsSpace(cs[i]) THEN 1 + SpaceRunBack(cs, i - 1) ELSE 0

\* String.prototype.trim.
Trim(cs) ==
    LET a == SpaceRun(cs, 1)
    IN  IF a = Len(cs) THEN <<>>
        ELSE Slice(cs, a + 1, Len(cs) - SpaceRunBack(cs, Len(cs)))

\* Value of a run of digits.
RECURSIVE DigitsValue(_)
DigitsValue(ds) ==
    IF ds = <<>> THEN 0
    ELSE 10 * DigitsValue(Slice(ds, 1, Len(ds) - 1)) + DigitVal(ds[Len(ds)])

\* The number written as ip "." fp, in tenths (the first decimal digit is kept).
DecimalTenths(ip, fp) ==
    10 * DigitsValue(ip) + (IF fp = <<>> THEN 0 ELSE DigitVal(fp[1]))

\* The longest prefix of cs that is a decimal literal: [sign, int digits, frac
\* digits, length], or length 0 when cs does not start with one.
\* (sg: length of the sign, ni: integer digits, nf: digits after a ".", which
\* is there when dot.)
PrefixParts(cs, sg, ni, dot, nf) ==
    [neg |-> sg = 1 /\ cs[1] = "-",
     ip |-> Slice(cs, sg + 1, sg + ni),
     fp |-> Slice(cs, sg + ni + 2, sg + ni + 1 + nf),
     len |-> IF ni = 0 /\ nf = 0 THEN 0 ELSE sg + ni + (IF dot THEN 1 + nf ELSE 0)]

PrefixFraction(cs, sg, ni, dot) ==
    PrefixParts(cs, sg, ni, dot, IF dot THEN DigitRun(cs, sg + ni + 2) ELSE 0)

PrefixDigits(cs, sg, ni) ==
    PrefixFraction(cs, sg, ni, Len(cs) >= sg + ni + 1 /\ cs[sg + ni + 1] = ".")

PrefixSign(cs, sg) == PrefixDigits(cs, sg, DigitRun(cs, sg + 1))

NumericPrefix(cs) ==
    PrefixSign(cs, IF Len(cs) >= 1 /\ cs[1] \in {"-", "+"} THEN 1 ELSE 0)

\* The value of a prefix, in tenths.
PrefixValue(p) ==
    IF p.neg THEN -DecimalTenths(p.ip, p.fp) ELSE DecimalTenths(p.ip, p.fp)

\* parseFloat(string): leading white space skipped, the longest decimal prefix
\* read, NaN when there is none.
ParsedPrefix(p) == IF p.len = 0 THEN NaN ELSE Tenths(PrefixValue(p))

ParseFloat(cs) == ParsedPrefix(NumericPrefix(Slice(cs, SpaceRun(cs, 1) + 1, Len(cs))))

\* Number(string), the conversion behind unary plus, * and <: white space
\* trimmed, "" is 0, a whole decimal literal is its value, anything else NaN.
WholeLiteral(body, p) ==
    IF body = <<>> THEN Tenths(0)
    ELSE IF p.len = Len(body) /\ p.len > 0 THEN Tenths(PrefixValue(p))
    ELSE NaN

TrimmedToNumber(body) == WholeLiteral(body, NumericPrefix(body))

StringToNumber(cs) == TrimmedToNumber(Trim(cs))

\* ToNumber(v): undefined is NaN, null is 0.
ToNumber(v) ==
    CASE v.t = "undefined" -> NaN
      [] v.t = "null" -> Tenths(0)
      [] v.t = "string" -> StringToNumber(v.s)
      [] v.t = "object" -> NaN
      [] OTHER -> v

\* String(v), as a template literal interpolates it.
JsString(v) ==
    CASE v.t = "undefined" -> <<"u", "n", "d", "e", "f", "i", "n", "e", "d">>
      [] v.t = "null" -> <<"n", "u", "l", "l">>
      [] v.t = "string" -> v.s
      [] OTHER -> <<"#">>

\* Truthiness: undefined, null, "", 0 and NaN are falsy.
Truthy(v) ==
    CASE v.t \in {"undefined", "null", "nan"} -> FALSE
      [] v.t = "string" -> v.s # <<>>
      [] v.t = "number" -> v.n # 0
      [] OTHER -> TRUE

\* ------------------------------------------------------------- arithmetic
\* a + b on numbers (Infinity here is +Infinity only).
JsAdd(a, b) ==
    CASE a.t = "nan" \/ b.t = "nan" -> NaN
      [] a.t = "inf" \/ b.t = "inf" -> Infinity
      [] OTHER -> Tenths(a.n + b.n)

\* a * k for a positive whole k, after ToNumber(a).
NumberTimes(x, k) ==
    CASE x.t = "nan" -> NaN
      [] x.t = "inf" -> Infinity
      [] OTHER -> Tenths(x.n * k)

JsTimes(a, k) == NumberTimes(ToNumber(a), k)

\* a < k and a <= k for a whole k, after ToNumber(a); NaN compares false.
NumberLess(x, k) == x.t = "number" /\ x.n < k * 10
NumberLessEq(x, k) == x.t = "number" /\ x.n <= k * 10

JsLess(a, k) == NumberLess(ToNumber(a), k)

JsLessEq(a, k) == NumberLessEq(ToNumber(a), k)

\* isFinite(a): the global one, which converts its argument.
IsFinite(a) == ToNumber(a).t = "number"

Abs(i) == IF i < 0 THEN -i ELSE i

\* if (cond) list.push(field), as the list of what is pushed.
PushIf(cond, field) == IF cond THEN <<field>> ELSE <<>>

\* An object the code only tests for presence (extra).
Obj == [t |-> "object", n |-> 0, s |-> <<>>]

\* ------------------------------------------------------- canonical entries
VALID_SERVING_UNITS == {<<"m", "l">>, <<"g">>, <<"t", "b", "s", "p">>}

\* A call that returned val, and a call that threw a TypeError.
Returned(val) == [ok |-> TRUE, val |-> val]
NoIssues == [present |-> FALSE, keys |-> {}, invalid |-> <<>>, unknown |-> <<>>,
             inconsistent |-> <<>>]
NoEntry ==
    [id |-> Undefined, timestamp |-> Undefined, foodName |-> Undefined,
     serving |-> [t |-> "undefined", amount |-> Undefined, unit |-> Undefined],
     macros |-> [protein |-> Undefined, carbs |-> Undefined, fat |-> Undefined],
     calories |-> Undefined, metadata |-> [t |-> "absent", keys |-> {}],
     issues |-> NoIssues]
Threw == [ok |-> FALSE, val |-> NoEntry]

\* isValidServingUnit: unit.toLowerCase() is a TypeError unless unit is a string.
isValidServingUnitThrows(unit) == unit.t # "string"
\* The slip of comparing the unit as it is spelled.
isValidServingUnitAsSpelled(unit) == unit.s \in VALID_SERVING_UNITS
isValidServingUnit(unit) == ToLowerCase(unit.s) \in VALID_SERVING_UNITS

\* calcCalories: a parameter that is undefined takes its default, 0.
calcCalories(p, c, f) ==
    LET d(x) == IF x.t = "undefined" THEN Tenths(0) ELSE x
    IN  JsAdd(JsAdd(JsTimes(d(p), 4), JsTimes(d(c), 4)), JsTimes(d(f), 9))

\* validateCalories: |calc| / 3 >= | |calc| - |given| |; a comparison with NaN
\* is false.
WithinTolerance(calculatedCalories, givenCalories) ==
    CASE calculatedCalories.t = "nan" \/ givenCalories.t = "nan" -> FALSE
      [] calculatedCalories.t = "inf" -> givenCalories.t # "inf"
      [] givenCalories.t = "inf" -> FALSE
      [] OTHER -> Abs(calculatedCalories.n)
                  >= 3 * Abs(Abs(calculatedCalories.n) - Abs(givenCalories.n))

validateCalories(givenCalories, p, c, f) ==
    /\ TypeOf(givenCalories) = "number"
    /\ WithinTolerance(calcCalories(p, c, f), givenCalories)

\* The issues object: a list is a key of it only when the list is not empty.
IssueKeys(invalid, unknown, inconsistent) ==
    (IF Len(invalid) > 0 THEN {"invalid"} ELSE {})
    \cup (IF Len(unknown) > 0 THEN {"unknown"} ELSE {})
    \cup (IF Len(inconsistent) > 0 THEN {"inconsistent"} ELSE {})

\* The slip of attaching the issues object whether or not it has a key.
AttachIssuesAlways(keys, invalid, unknown, inconsistent) ==
    [present |-> TRUE, keys |-> keys, invalid |-> invalid,
     unknown |-> unknown, inconsistent |-> inconsistent]

\* ...(Object.keys(issues).length > 0 && {issues})
AttachIssues(keys, invalid, unknown, inconsistent) ==
    [present |-> Cardinality(keys) > 0, keys |-> keys, invalid |-> invalid,
     unknown |-> unknown, inconsistent |-> inconsistent]

BuildIssues(invalid, unknown, inconsistent) ==
    AttachIssues(IssueKeys(invalid, unknown, inconsistent), invalid, unknown,
                 inconsistent)

\* validateEntry(entry, unknownFields).
\* The slip of pushing onto the invalid list the entry already carries.
InvalidFieldsCarried(entry) ==
    entry.issues.invalid
    \o PushIf(~isValidServingUnit(entry.serving.unit), "serving")
    \o PushIf(TypeOf(entry.calories) = "number" /\ JsLess(entry.calories, 0), "calories")
    \o PushIf(\/ JsLess(entry.macros.protein, 0)
              \/ JsLess(entry.macros.carbs, 0)
              \/ JsLess(entry.macros.fat, 0), "macros")
    \o PushIf(\/ JsLessEq(entry.serving.amount, 0)
              \/ ~IsFinite(entry.serving.amount), "serving")

\* The pushes of validateEntry, in the order the code makes them.
InvalidFields(entry) ==
    PushIf(~isValidServingUnit(entry.serving.unit), "serving")
    \o PushIf(TypeOf(entry.calories) = "number" /\ JsLess(entry.calories, 0), "calories")
    \o PushIf(\/ JsLess(entry.macros.protein, 0)
              \/ JsLess(entry.macros.carbs, 0)
              \/ JsLess(entry.macros.fat, 0), "macros")
    \o PushIf(\/ JsLessEq(entry.serving.amount, 0)
              \/ ~IsFinite(entry.serving.amount), "serving")

InconsistentFields(entry) ==
    PushIf(/\ TypeOf(entry.calories) = "number"
           /\ ~validateCalories(entry.calories, entry.macros.protein,
                                 entry.macros.carbs, entry.macros.fat), "calories")

\* validateEntry(entry, unknownFields): reading entry.serving.unit of a serving
\* that is undefined or null is a TypeError, and so is unit.toLowerCase().
\* {...entry, ...(Object.keys(issues).length > 0 && {issues})}: the issues key is
\* written only when the new issues object has a key; otherwise the entry
\* keeps what it carried.
SpreadIssues(entry, issues) ==
    IF issues.present THEN [entry EXCEPT !.issues = issues] ELSE entry

validateEntry(entry, unknownFields) ==
    IF entry.serving.t # "object" \/ isValidServingUnitThrows(entry.serving.unit)
    THEN Threw
    ELSE Returned(SpreadIssues(entry,
                               BuildIssues(InvalidFields(entry), unknownFields,
                                           InconsistentFields(entry))))

\* ------------------------------------------------------------- normalizers
\* The first regular expression of parseServingSize, ^(\d+(?:\.\d+)?)\s*(.+)$,
\* under the backtracking of a JavaScript engine: every way of splitting cs into
\* a digits (a >= 1), an optional "." with k digits (b = 1 + k, or 0), w blanks
\* and a non-empty rest.
ServingSplits(cs) ==
    LET maxA == DigitRun(cs, 1)
    IN  {sp \in [a : 1..maxA, b : 0..Len(cs), w : 0..Len(cs)] :
            /\ sp.b # 1
            /\ sp.b > 1 => /\ sp.a + 1 <= Len(cs)
                           /\ cs[sp.a + 1] = "."
                           /\ sp.b - 1 <= DigitRun(cs, sp.a + 2)
            /\ sp.w <= SpaceRun(cs, sp.a + sp.b + 1)
            /\ sp.a + sp.b + sp.w < Len(cs)}

\* Greedy quantifiers give up characters last to first: the split the engine
\* finds is the one with the longest a, then the longest b, then the longest w.
Prefers(x, y) ==
    \/ x.a > y.a
    \/ x.a = y.a /\ x.b > y.b
    \/ x.a = y.a /\ x.b = y.b /\ x.w >= y.w

\* Position and length of the first match of \d+(?:\.\d+)? in cs (length 0:
\* no match).
RECURSIVE FirstDigit(_, _)
FirstDigit(cs, i) ==
    IF i > Len(cs) THEN 0
    ELSE IF cs[i] \in Digits THEN i ELSE FirstDigit(cs, i + 1)

NumMatchFraction(at, ni, nf) ==
    [at |-> at, len |-> ni + (IF nf > 0 THEN 1 + nf ELSE 0)]

NumMatchDigits(cs, at, ni) ==
    NumMatchFraction(at, ni, IF at + ni <= Len(cs) /\ cs[at + ni] = "."
                             THEN DigitRun(cs, at + ni + 1) ELSE 0)

NumMatchAt(cs, at) ==
    IF at = 0 THEN [at |-> 0, len |-> 0] ELSE NumMatchDigits(cs, at, DigitRun(cs, at))

NumMatch(cs) == NumMatchAt(cs, FirstDigit(cs, 1))

\* parseServingSize(servingSize), of a string.
\* match[1] and match[2] of the split the engine finds.
SplitServing(cs, sp) ==
    [t |-> "object",
     amount |-> ParseFloat(Slice(cs, 1, sp.a + sp.b)),
     unit |-> Str(Trim(Slice(cs, sp.a + sp.b + sp.w + 1, Len(cs))))]

\* servingSize.replace(numMatch[0], '').trim() || 'unit'
UnitOrDefault(rest) == Str(IF rest = <<>> THEN <<"u", "n", "i", "t">> ELSE rest)

\* The fallbacks: the first number anywhere in the string, else amount 1.
FallbackServing(cs, nm) ==
    IF nm.len > 0
    THEN [t |-> "object",
          amount |-> ParseFloat(Slice(cs, nm.at, nm.at + nm.len - 1)),
          unit |-> UnitOrDefault(Trim(Slice(cs, 1, nm.at - 1)
                                      \o Slice(cs, nm.at + nm.len, Len(cs))))]
    ELSE [t |-> "object", amount |-> Num(1), unit |-> Str(cs)]

ServingOf(cs, splits) ==
    IF splits # {}
    THEN SplitServing(cs, CHOOSE x \in splits : \A y \in splits : Prefers(x, y))
    ELSE FallbackServing(cs, NumMatch(cs))

\* parseServingSize(servingSize), of a string.
parseServingSize(cs) == ServingOf(cs, ServingSplits(cs))

\* toNumber and toNumberOrNull.
\* isNaN(parsed) ? dflt : parsed
ParsedOr(parsed, dflt) == IF parsed.t = "nan" THEN dflt ELSE parsed

toNumber(value) ==
    CASE IsNullish(value) -> Num(0)
      [] TypeOf(value) = "number" -> value
      [] OTHER -> ParsedOr(ParseFloat(JsString(value)), Num(0))

toNumberOrNull(value) ==
    CASE IsNullish(value) -> Null
      [] TypeOf(value) = "number" -> value
      [] OTHER -> ParsedOr(ParseFloat(JsString(value)), Null)

\* Object.values(entry.macros): the values of the keys the object has.
MacroKeys == {"protein_g", "carbs_g", "fat_g", "protein", "carbs", "fat"}
MacroValues(macros) == {macros[k] : k \in {k \in MacroKeys : macros[k] # Undefined}}

\* Object.values(entry.macros).some(val => typeof (+val) !== 'number')
MacrosUnknown(macros) == \E val \in MacroValues(macros) : TypeOf(ToNumber(val)) # "number"

\* The preliminary unknown list of Shapes A and D.
UnknownFieldsAD(entry) ==
    PushIf(MacrosUnknown(entry.macros), "macros")
    \o PushIf(TypeOf(entry.calories_kcal) # "number", "calories")

\* The metadata object of Shapes C and D: undefined when it has no key.
Metadata(keys) == [t |-> IF keys = {} THEN "undefined" ELSE "object", keys |-> keys]

normalizeSourceA(entry) ==
    IF entry.macros.t # "object" THEN Threw
    ELSE validateEntry(
           [id |-> entry.entryId, timestamp |-> entry.timestamp,
            foodName |-> entry.foodName,
            serving |-> [t |-> entry.serving.t, amount |-> entry.serving.amount,
                         unit |-> entry.serving.unit],
            macros |-> [protein |-> entry.macros.protein_g,
                        carbs |-> entry.macros.carbs_g, fat |-> entry.macros.fat_g],
            calories |-> entry.calories_kcal,
            metadata |-> [t |-> "absent", keys |-> {}],
            issues |-> NoIssues],
           UnknownFieldsAD(entry))

normalizeSourceB(entry) ==
    IF TypeOf(entry.servingSize) # "string" \/ entry.macros.t # "object" THEN Threw
    ELSE validateEntry(
           [id |-> entry.id, timestamp |-> entry.loggedAt, foodName |-> entry.name,
            serving |-> parseServingSize(entry.servingSize.s),
            macros |-> [protein |-> toNumber(entry.macros.protein),
                        carbs |-> toNumber(entry.macros.carbs),
                        fat |-> toNumber(entry.macros.fat)],
            calories |-> toNumberOrNull(entry.calories),
            metadata |-> IF Truthy(entry.extra) THEN [t |-> "object", keys |-> {"extra"}]
                         ELSE [t |-> "undefined", keys |-> {}],
            issues |-> NoIssues],
           PushIf(MacrosUnknown(entry.macros), "macros")
           \o PushIf(~Truthy(entry.calories), "calories"))

\* The characters /[^a-zA-Z0-9-]/ does not match.
IdChars ==
    Digits \cup {"-"}
    \cup {"a", "b", "c", "d", "e", "f", "g", "h", "i", "j", "k", "l", "m",
          "n", "o", "p", "q", "r", "s", "t", "u", "v", "w", "x", "y", "z"}
    \cup {"A", "B", "C", "D", "E", "F", "G", "H", "I", "J", "K", "L", "M",
          "N", "O", "P", "Q", "R", "S", "T", "U", "V", "W", "X", "Y", "Z"}

\* `c-${logged_at}-${label}`.replace(/[^a-zA-Z0-9-]/g, '-')
SynthesizeId(logged_at, label) ==
    LET raw == <<"c", "-">> \o JsString(logged_at) \o <<"-">> \o JsString(label)
    IN  Str([i \in DOMAIN raw |-> IF raw[i] \in IdChars THEN raw[i] ELSE "-"])

KeyProtein == <<"p", "r", "o", "t", "e", "i", "n">>
KeyCarbohydrate == <<"c", "a", "r", "b", "o", "h", "y", "d", "r", "a", "t", "e">>
KeyCarbs == <<"c", "a", "r", "b", "s">>
KeyFat == <<"f", "a", "t">>
KeyEnergy == <<"e", "n", "e", "r", "g", "y">>

\* The state of the loop of normalizeSourceC before any nutrient is read.
NutrientsStart ==
    [protein |-> Num(0), carbs |-> Num(0), fat |-> Num(0), calories_kcal |-> Null,
     hasProtein |-> FALSE, hasCarbs |-> FALSE, hasFat |-> FALSE, hasEnergy |-> FALSE]

\* The slip of keeping the first value of a key instead of the last.
NutrientStepFirstWins(acc, nutrient) ==
    LET key == ToLowerCase(nutrient.key.s)
    IN  CASE key = KeyProtein /\ ~acc.hasProtein ->
               [acc EXCEPT !.protein = nutrient.value, !.hasProtein = TRUE]
          [] (key = KeyCarbohydrate \/ key = KeyCarbs) /\ ~acc.hasCarbs ->
               [acc EXCEPT !.carbs = nutrient.value, !.hasCarbs = TRUE]
          [] key = KeyFat /\ ~acc.hasFat ->
               [acc EXCEPT !.fat = nutrient.value, !.hasFat = TRUE]
          [] key = KeyEnergy /\ ~acc.hasEnergy ->
               [acc EXCEPT !.calories_kcal = nutrient.value, !.hasEnergy = TRUE]
          [] OTHER -> acc

\* One iteration of the loop.
NutrientStep(acc, nutrient) ==
    LET key == ToLowerCase(nutrient.key.s)
    IN  CASE key = KeyProtein ->
               [acc EXCEPT !.protein = nutrient.value, !.hasProtein = TRUE]
          [] key = KeyCarbohydrate \/ key = KeyCarbs ->
               [acc EXCEPT !.carbs = nutrient.value, !.hasCarbs = TRUE]
          [] key = KeyFat ->
               [acc EXCEPT !.fat = nutrient.value, !.hasFat = TRUE]
          [] key = KeyEnergy ->
               [acc EXCEPT !.calories_kcal = nutrient.value, !.hasEnergy = TRUE]
          [] OTHER -> acc

\* The loop over entry.nutrients, first to last.
RECURSIVE ProcessNutrients(_)
ProcessNutrients(list) ==
    IF list = <<>> THEN NutrientsStart
    ELSE NutrientStep(ProcessNutrients(Slice(list, 1, Len(list) - 1)), list[Len(list)])

\* The record normalizeSourceC builds once the loop has ended in acc.
BuildSourceC(entry, acc) ==
    validateEntry(
      [id |-> SynthesizeId(entry.logged_at, entry.item.label),
       timestamp |-> entry.logged_at, foodName |-> entry.item.label,
       serving |-> [t |-> "object", amount |-> entry.serving_grams,
                    unit |-> Str(<<"g">>)],
       macros |-> [protein |-> acc.protein, carbs |-> acc.carbs, fat |-> acc.fat],
       calories |-> acc.calories_kcal,
       metadata |-> Metadata((IF Truthy(entry.source) THEN {"source"} ELSE {})
                             \cup (IF Truthy(entry.item.brand) THEN {"brand"} ELSE {})),
       issues |-> NoIssues],
      PushIf(~acc.hasProtein \/ ~acc.hasCarbs \/ ~acc.hasFat, "macros")
      \o PushIf(~acc.hasEnergy, "calories"))

\* Iterating nutrients that is no array, nutrient.key.toLowerCase() of a key
\* that is no string and entry.item.brand of an item that is undefined or null
\* are TypeErrors.
normalizeSourceC(entry) ==
    IF \/ entry.nutrients.t # "array"
       \/ \E i \in DOMAIN entry.nutrients.list :
              TypeOf(entry.nutrients.list[i].key) # "string"
       \/ entry.item.t # "object"
    THEN Threw
    ELSE BuildSourceC(entry, ProcessNutrients(entry.nutrients.list))

normalizeSourceD(entry) ==
    IF entry.macros.t # "object" THEN Threw
    ELSE validateEntry(
           [id |-> entry.id, timestamp |-> entry.time, foodName |-> entry.food,
            serving |-> [t |-> entry.serving.t, amount |-> entry.serving.amount,
                         unit |-> entry.serving.unit],
            macros |-> [protein |-> entry.macros.protein_g,
                        carbs |-> entry.macros.carbs_g, fat |-> entry.macros.fat_g],
            calories |-> entry.calories_kcal,
            metadata |-> Metadata(IF Truthy(entry.macros_basis)
                                  THEN {"macros_basis"} ELSE {}),
            issues |-> NoIssues],
           UnknownFieldsAD(entry))

\* --------------------------------------------------------------- classifier
\* 'key' in firstEntry: a parsed JSON object has a key exactly when it has a
\* value for it (null included).
Has(v) == v.t # "undefined"

\* The shape normalizeEntries detects from the first entry; "none" when no
\* signature matches.
DetectShape(firstEntry) ==
    CASE Has(firstEntry.entryId) /\ Has(firstEntry.foodName) -> "A"
      [] Has(firstEntry.loggedAt) /\ Has(firstEntry.servingSize)
         /\ TypeOf(firstEntry.servingSize) = "string" -> "B"
      [] Has(firstEntry.item) /\ Has(firstEntry.nutrients)
         /\ firstEntry.nutrients.t = "array" -> "C"
      [] Has(firstEntry.time) /\ Has(firstEntry.food) -> "D"
      [] OTHER -> "none"

\* The normalizer of a shape.
Normalize(shape, entry) ==
    CASE shape = "A" -> normalizeSourceA(entry)
      [] shape = "B" -> normalizeSourceB(entry)
      [] shape = "C" -> normalizeSourceC(entry)
      [] OTHER -> normalizeSourceD(entry)

\* The slip of classifying every record by itself instead of the batch by its
\* first record.
RECURSIVE MapEntriesPerRecord(_, _)
MapEntriesPerRecord(shape, data) ==
    IF data = <<>> THEN <<>>
    ELSE <<Normalize(DetectShape(Head(data)), Head(data))>>
         \o MapEntriesPerRecord(shape, Tail(data))

\* data.map(entry => normalize(entry)): the calls in index order.
RECURSIVE MapEntries(_, _)
MapEntries(shape, data) ==
    IF data = <<>> THEN <<>>
    ELSE <<Normalize(shape, Head(data))>> \o MapEntries(shape, Tail(data))

\* ------------------------------------------------------------------ inputs
\* A parsed JSON object with no key at all.
EmptyRecord ==
    [entryId |-> Undefined, foodName |-> Undefined, timestamp |-> Undefined,
     id |-> Undefined, loggedAt |-> Undefined, name |-> Undefined,
     logged_at |-> Undefined, time |-> Undefined, food |-> Undefined,
     macros_basis |-> Undefined, source |-> Undefined, extra |-> Undefined,
     calories_kcal |-> Undefined, calories |-> Undefined,
     servingSize |-> Undefined, serving_grams |-> Undefined,
     serving |-> [t |-> "undefined", amount |-> Undefined, unit |-> Undefined],
     macros |-> [t |-> "undefined", protein_g |-> Undefined, carbs_g |-> Undefined,
                 fat_g |-> Undefined, protein |-> Undefined, carbs |-> Undefined,
                 fat |-> Undefined],
     item |-> [t |-> "undefined", label |-> Undefined, brand |-> Undefined],
     nutrients |-> [t |-> "undefined", list |-> <<>>]]

SomeId == Str(<<"a", "-", "1">>)
SomeTime == Str(<<"T", "0", "8", ":", "0", "0">>)
SomeFood == Str(<<"O", "a", "t", " ", "m", "i", "l", "k">>)
SomeBrand == Str(<<"A", "c", "m", "e">>)
NotANumber == Str(<<"n", "/", "a">>)

ServingObj(amount, unit) == [t |-> "object", amount |-> amount, unit |-> unit]
GoodServing == ServingObj(Num(2), Str(<<"t", "b", "s", "p">>))

\* The values a macro of a Shape A / D record takes: whole grams, and the
\* values that are no number.
MacroNumbers == {Num(i) : i \in -1..MaxMacro}
MacroOdd == {Undefined, Null, NotANumber}
Triples(good, odd) ==
    {m \in [1..3 -> good \cup odd] : Cardinality({i \in 1..3 : m[i] \in odd}) <= 1}

CalNumbers == {Num(i) : i \in -MaxCal..MaxCal}
CalOdd == {Undefined, Null, Str(<<"9">>)}

ServingAmounts == {Num(2), Tenths(5), Num(0), Num(-1), Infinity, Null, Undefined}
ServingUnits ==
    {Str(<<"g">>), Str(<<"M", "L">>), Str(<<"T", "b", "s", "p">>),
     Str(<<"c", "u", "p">>), Str(<<>>), Undefined, Num(1)}
Servings ==
    {ServingObj(a, u) : a \in ServingAmounts, u \in ServingUnits}
    \cup {[t |-> "undefined", amount |-> Undefined, unit |-> Undefined],
          [t |-> "null", amount |-> Undefined, unit |-> Undefined]}

MacrosG(m) ==
    [t |-> "object", protein_g |-> m[1], carbs_g |-> m[2], fat_g |-> m[3],
     protein |-> Undefined, carbs |-> Undefined, fat |-> Undefined]
MacrosPlain(m) ==
    [t |-> "object", protein_g |-> Undefined, carbs_g |-> Undefined,
     fat_g |-> Undefined, protein |-> m[1], carbs |-> m[2], fat |-> m[3]]

\* A few macro / calories pairs, for the records whose other fields vary.
FewMacros == {<<Num(1), Num(1), Num(1)>>, <<Num(0), Num(0), Num(0)>>}
FewCals == {Num(17), Num(0), Null}

\* Shape A records.
RecordA(m, cal, serving) ==
    [EmptyRecord EXCEPT !.entryId = SomeId, !.timestamp = SomeTime,
                        !.foodName = SomeFood, !.serving = serving,
                        !.macros = MacrosG(m), !.calories_kcal = cal]
RecordsA ==
    {RecordA(m, cal, GoodServing) :
        m \in Triples(MacroNumbers, MacroOdd), cal \in CalNumbers \cup CalOdd}
    \cup {RecordA(m, cal, sv) : m \in FewMacros, cal \in FewCals, sv \in Servings}

\* Shape D records.
RecordD(m, cal, serving, basis) ==
    [EmptyRecord EXCEPT !.id = SomeId, !.time = SomeTime, !.food = SomeFood,
                        !.serving = serving, !.macros = MacrosG(m),
                        !.calories_kcal = cal, !.macros_basis = basis]
RecordsD ==
    {RecordD(m, cal, GoodServing, Str(<<"r", "a", "w">>)) :
        m \in Triples(MacroNumbers, MacroOdd), cal \in CalNumbers \cup CalOdd}
    \cup {RecordD(m, cal, sv, Undefined) :
            m \in FewMacros, cal \in FewCals, sv \in Servings}

\* Shape B records: macros and calories are strings.
MacroStrings == {Str(<<"0">>), Str(<<"1">>), Str(<<"2">>)}
MacroStringsOdd ==
    {NotANumber, Str(<<>>), Str(<<"1", ".", "5">>), Str(<<"-", "1">>), Str(<<"3", "g">>),
     Null, Undefined, Num(1)}
CalStrings ==
    {Str(<<"1", "7">>), Str(<<"9">>), Str(<<"4">>), Str(<<"0">>), Str(<<"-", "4">>),
     Str(<<>>), NotANumber, Null, Undefined, Num(9), Num(0)}
ServingSizes ==
    {Str(<<"2", " ", "t", "b", "s", "p">>),
     Str(<<"5", "0", "0", "m", "l">>),
     Str(<<"1", ".", "5", " ", "g">>),
     Str(<<"2", "5", "0", " ", "M", "L">>),
     Str(<<"1", " ", "c", "u", "p">>),
     Str(<<"2", "5">>),
     Str(<<"5", "0", "0">>),
     Str(<<"5">>),
     Str(<<"1", ".", "2", "5">>),
     Str(<<"2", ".", "5">>),
     Str(<<"a", "b", "c">>),
     Str(<<>>),
     Str(<<" ", " ", "g">>),
     Str(<<"0", " ", "g">>),
     Str(<<"p", "a", "c", "k", " ", "o", "f", " ", "2">>),
     Str(<<"2", " ", " ", "G">>),
     Undefined, Null, Num(2)}
RecordB(m, cal, servingSize, extra) ==
    [EmptyRecord EXCEPT !.id = SomeId, !.loggedAt = SomeTime, !.name = SomeFood,
                        !.servingSize = servingSize, !.macros = MacrosPlain(m),
                        !.calories = cal, !.extra = extra]
RecordsB ==
    {RecordB(m, cal, Str(<<"2", " ", "t", "b", "s", "p">>), Undefined) :
        m \in Triples(MacroStrings, MacroStringsOdd), cal \in CalStrings}
    \cup {RecordB(m, cal, sz, Obj) :
            m \in {<<Str(<<"1">>), Str(<<"1">>), Str(<<"1">>)>>},
            cal \in {Str(<<"1", "7">>), Null}, sz \in ServingSizes}

\* Shape C records: the nutrient lists of at most MaxNutrients entries.
Nutrient(key, value) == [key |-> key, value |-> value]
NutrientEntries ==
    {Nutrient(Str(KeyProtein), Num(1)),
     Nutrient(Str(<<"P", "r", "o", "t", "e", "i", "n">>), Num(2)),
     Nutrient(Str(KeyCarbs), Num(1)),
     Nutrient(Str(KeyCarbohydrate), Num(2)),
     Nutrient(Str(KeyFat), Num(1)),
     Nutrient(Str(KeyEnergy), Num(17)),
     Nutrient(Str(KeyEnergy), Num(40)),
     Nutrient(Str(<<"f", "i", "b", "e", "r">>), Num(3))}
NutrientLists ==
    UNION {[1..n -> NutrientEntries] : n \in 0..MaxNutrients}
FullNutrients ==
    <<Nutrient(Str(KeyProtein), Num(1)), Nutrient(Str(KeyCarbs), Num(1)),
      Nutrient(Str(KeyFat), Num(1)), Nutrient(Str(KeyEnergy), Num(17))>>

ItemObj(label, brand) == [t |-> "object", label |-> label, brand |-> brand]
Items ==
    {ItemObj(SomeFood, SomeBrand), ItemObj(SomeFood, Undefined),
     ItemObj(Undefined, Undefined),
     [t |-> "null", label |-> Undefined, brand |-> Undefined],
     [t |-> "undefined", label |-> Undefined, brand |-> Undefined]}
\* (with a nutrient that has no key, and nutrients that is no array)
NutrientArrays ==
    {[t |-> "array", list |-> FullNutrients], [t |-> "array", list |-> <<>>],
     [t |-> "array", list |-> Append(FullNutrients, Nutrient(Undefined, Num(1)))],
     [t |-> "null", list |-> <<>>], [t |-> "undefined", list |-> <<>>]}

RecordC(item, logged_at, grams, nutrients, source) ==
    [EmptyRecord EXCEPT !.item = item, !.logged_at = logged_at,
                        !.serving_grams = grams, !.nutrients = nutrients,
                        !.source = source]
RecordsC ==
    {RecordC(ItemObj(SomeFood, SomeBrand), SomeTime, Num(30),
             [t |-> "array", list |-> l], Undefined) : l \in NutrientLists}
    \cup {RecordC(it, ts, g, ns, Str(<<"c">>)) :
            it \in Items, ts \in {SomeTime, Undefined},
            g \in {Num(30), Num(0), Undefined}, ns \in NutrientArrays}

\* The records of the longer batches: one well-formed record of each shape,
\* records that lack a field, and records that match no signature.
GoodA == RecordA(<<Num(1), Num(1), Num(1)>>, Num(17), GoodServing)
GoodB ==
    RecordB(<<Str(<<"1">>), Str(<<"1">>), Str(<<"1">>)>>, Str(<<"1", "7">>),
            Str(<<"2", " ", "t", "b", "s", "p">>), Undefined)
GoodC ==
    RecordC(ItemObj(SomeFood, Undefined), SomeTime, Num(30),
            [t |-> "array", list |-> FullNutrients], Undefined)
GoodD == RecordD(<<Num(1), Num(1), Num(1)>>, Num(17), GoodServing, Undefined)
BatchRecords ==
    {GoodA, GoodB, GoodC, GoodD,
     [GoodA EXCEPT !.macros = EmptyRecord.macros],
     [GoodA EXCEPT !.serving = EmptyRecord.serving],
     [GoodA EXCEPT !.entryId = Undefined],
     [GoodB EXCEPT !.servingSize = Num(2)],
     [GoodC EXCEPT !.item = ItemObj(Undefined, Undefined)],
     [GoodC EXCEPT !.nutrients = [t |-> "null", list |-> <<>>]],
     [GoodD EXCEPT !.entryId = SomeId, !.foodName = SomeFood],
     [GoodD EXCEPT !.food = Undefined],
     EmptyRecord}

Batches == UNION {[1..n -> BatchRecords] : n \in 0..MaxBatch}
\* The batches of one record, where the fields of the record vary most.
Singles == {<<r>> : r \in RecordsA \cup RecordsB \cup RecordsC \cup RecordsD}

\* ------------------------------------------------------------------- state
VARIABLES
    data,    \* the argument of normalizeEntries
    pc,      \* "call" before normalizeEntries runs, "done" after
    result,  \* how the call ended, and the array it returned
    calls    \* how many times each normalizer has been invoked

vars == <<data, pc, result, calls>>

Shapes == {"A", "B", "C", "D"}
NoCalls == [s \in Shapes |-> 0]

Init ==
    /\ \/ data \in Batches
       \/ data \in Singles
    /\ pc = "call"
    /\ result = [status |-> "pending", out |-> <<>>]
    /\ calls = NoCalls

\* Index of the first call of the map that throws, 0 when none does.
RECURSIVE FirstThrow(_, _)
FirstThrow(rs, i) ==
    IF i > Len(rs) THEN 0 ELSE IF ~rs[i].ok THEN i ELSE FirstThrow(rs, i + 1)

\* return data.map(entry => normalizeSourceX(entry)): the array of the
\* normalized entries, or the TypeError of the first call that throws, which
\* ends the map.
MapOutcome(rs, k) ==
    IF k = 0
    THEN [status |-> "returned", out |-> [i \in DOMAIN rs |-> rs[i].val],
          invoked |-> Len(rs)]
    ELSE [status |-> "TypeError", out |-> <<>>, invoked |-> k]

MapResult(rs) == MapOutcome(rs, FirstThrow(rs, 1))

RunMap(shape, o) ==
    /\ result' = [status |-> o.status, out |-> o.out]
    /\ calls' = [calls EXCEPT ![shape] = o.invoked]

MapSource ==
    /\ pc = "call"
    /\ data # <<>>
    /\ \E shape \in Shapes :
          /\ DetectShape(data[1]) = shape
          /\ RunMap(shape, MapResult(MapEntries(shape, data)))
    /\ pc' = "done"
    /\ UNCHANGED data

\* The slip of letting an empty array fall through to the shape detection,
\* which finds no signature.
ReturnEmptyFallsThrough ==
    /\ pc = "call"
    /\ data = <<>>
    /\ result' = [status |-> "UnknownFormat", out |-> <<>>]
    /\ pc' = "done"
    /\ UNCHANGED <<data, calls>>

\* if (!Array.isArray(data) || data.length === 0) return [];
ReturnEmpty ==
    /\ pc = "call"
    /\ data = <<>>
    /\ result' = [status |-> "returned", out |-> <<>>]
    /\ pc' = "done"
    /\ UNCHANGED <<data, calls>>

\* throw new Error('Unknown data source format');
ThrowUnknownFormat ==
    /\ pc = "call"
    /\ data # <<>>
    /\ DetectShape(data[1]) = "none"
    /\ result' = [status |-> "UnknownFormat", out |-> <<>>]
    /\ pc' = "done"
    /\ UNCHANGED <<data, calls>>

Next ==
    \/ ReturnEmpty
    \/ MapSource
    \/ ThrowUnknownFormat

Spec == Init /\ [][Next]_vars

\* validateEntry run a second time over every record normalizeEntries returned,
\* with the unknown list of the first run (its copy of the preliminary list) as
\* the preliminary list.
ValidatedAgain(out) ==
    [i \in DOMAIN out |-> validateEntry(out[i], out[i].issues.unknown)]

AgainResult(o) == [status |-> o.status, out |-> o.out]

ValidateAgain ==
    /\ pc = "done"
    /\ result.status = "returned"
    /\ result.out # <<>>
    /\ result' = AgainResult(MapResult(ValidatedAgain(result.out)))
    /\ pc' = "again"
    /\ UNCHANGED <<data, calls>>

NextAgain ==
    \/ Next
    \/ ValidateAgain

SpecAgain == Init /\ [][NextAgain]_vars

\* ------------------------------------------------------------------ claims
Range(list) == {list[i] : i \in DOMAIN list}
Succeeded == pc = "done" /\ result.status = "returned"
\* The entries the call returned, with the records they come from.
Outputs == {[raw |-> data[i], entry |-> result.out[i]] : i \in DOMAIN result.out}
IsNumber(v) == v.t = "number"
\* 4p + 4c + 9f of a canonical entry whose macros are numbers.
Expected(entry) ==
    4 * entry.macros.protein.n + 4 * entry.macros.carbs.n + 9 * entry.macros.fat.n
NumericMacros(entry) ==
    IsNumber(entry.macros.protein) /\ IsNumber(entry.macros.carbs)
    /\ IsNumber(entry.macros.fat)

\* C1: for every canonical record whose calories is a number, 'calories' is in
\* the inconsistent list exactly when |expected - calories| > |expected| / 3,
\* whatever the signs of the declared calories and of the macros.
C1_InconsistentIffOutsideTolerance ==
    Succeeded =>
        \A o \in Outputs :
            IsNumber(o.entry.calories) /\ NumericMacros(o.entry) =>
                ("calories" \in Range(o.entry.issues.inconsistent)
                 <=> 3 * Abs(Expected(o.entry) - o.entry.calories.n)
                     > Abs(Expected(o.entry)))

\* C2: a batch whose first record matches a signature never makes
\* normalizeEntries throw: no call ends in a TypeError.
C2_NoErrorButUnknownFormat ==
    pc = "done" => result.status \in {"returned", "UnknownFormat"}

\* A string that holds no number.
NonNumericString(v) == v.t = "string" /\ ParseFloat(v.s).t = "nan"

\* C3: in Shape B, a macro or calories value that is a non-numeric string is
\* defaulted (0, null) and its canonical field is in the unknown list.
C3_ShapeBNonNumericFlaggedUnknown ==
    Succeeded /\ data # <<>> /\ DetectShape(data[1]) = "B" =>
        \A o \in Outputs :
            /\ NonNumericString(o.raw.macros.protein) =>
                   /\ o.entry.macros.protein = Num(0)
                   /\ "macros" \in Range(o.entry.issues.unknown)
            /\ NonNumericString(o.raw.macros.carbs) =>
                   /\ o.entry.macros.carbs = Num(0)
                   /\ "macros" \in Range(o.entry.issues.unknown)
            /\ NonNumericString(o.raw.macros.fat) =>
                   /\ o.entry.macros.fat = Num(0)
                   /\ "macros" \in Range(o.entry.issues.unknown)
            /\ NonNumericString(o.raw.calories) =>
                   /\ o.entry.calories = Null
                   /\ "calories" \in Range(o.entry.issues.unknown)

\* The source value of each macro of a Shape A / D record.
SourceMacrosG(raw) == {raw.macros.protein_g, raw.macros.carbs_g, raw.macros.fat_g}

\* C4: every canonical record has non-null id, timestamp, foodName, serving and
\* macros, each macro is a number, and in Shapes A and D a macro whose source
\* value is missing or no number comes out as 0 with 'macros' flagged unknown.
C4_RequiredFieldsAndNumericMacros ==
    Succeeded =>
        \A o \in Outputs :
            /\ ~IsNullish(o.entry.id)
            /\ ~IsNullish(o.entry.timestamp)
            /\ ~IsNullish(o.entry.foodName)
            /\ o.entry.serving.t = "object"
            /\ TypeOf(o.entry.macros.protein) = "number"
            /\ TypeOf(o.entry.macros.carbs) = "number"
            /\ TypeOf(o.entry.macros.fat) = "number"
            /\ calls["A"] + calls["D"] > 0 =>
                   /\ TypeOf(o.raw.macros.protein_g) # "number" =>
                          o.entry.macros.protein = Num(0)
                   /\ TypeOf(o.raw.macros.carbs_g) # "number" =>
                          o.entry.macros.carbs = Num(0)
                   /\ TypeOf(o.raw.macros.fat_g) # "number" =>
                          o.entry.macros.fat = Num(0)
                   /\ (\E v \in SourceMacrosG(o.raw) : TypeOf(v) # "number") =>
                          "macros" \in Range(o.entry.issues.unknown)

\* ---- what the claims call a well-formed record, stated on the raw fields
IsString(v) == v.t = "string"
\* A string that is digits with an optional decimal part, and nothing else.
DecimalLiteral(cs) ==
    /\ cs # <<>>
    /\ cs[1] \in Digits
    /\ cs[Len(cs)] \in Digits
    /\ \A i \in DOMAIN cs : cs[i] \in Digits \cup {"."}
    /\ Cardinality({i \in DOMAIN cs : cs[i] = "."}) <= 1
\* A number of at least min tenths.
NumberFrom(v, min) == v.t = "number" /\ v.n >= min
\* Declared calories cal (tenths) within a third of 4p + 4c + 9f.
Tolerated(p, c, f, cal) ==
    3 * Abs((4 * p + 4 * c + 9 * f) - cal) <= Abs(4 * p + 4 * c + 9 * f)

WellFormedServing(serving) ==
    /\ serving.t = "object"
    /\ NumberFrom(serving.amount, 1)
    /\ IsString(serving.unit)
    /\ serving.unit.s \in VALID_SERVING_UNITS

WellFormedMacrosG(m, cal) ==
    /\ m.t = "object"
    /\ NumberFrom(m.protein_g, 0) /\ NumberFrom(m.carbs_g, 0) /\ NumberFrom(m.fat_g, 0)
    /\ NumberFrom(cal, 0)
    /\ Tolerated(m.protein_g.n, m.carbs_g.n, m.fat_g.n, cal.n)

WellFormedA(r) ==
    /\ IsString(r.entryId) /\ IsString(r.timestamp) /\ IsString(r.foodName)
    /\ WellFormedServing(r.serving)
    /\ WellFormedMacrosG(r.macros, r.calories_kcal)

WellFormedD(r) ==
    /\ IsString(r.id) /\ IsString(r.time) /\ IsString(r.food)
    /\ IsString(r.macros_basis)
    /\ WellFormedServing(r.serving)
    /\ WellFormedMacrosG(r.macros, r.calories_kcal)

\* "<amount><blanks><unit>": a positive decimal literal, then a recognized unit.
WellFormedServingSize(cs) ==
    \E k \in 1..Len(cs), u \in VALID_SERVING_UNITS :
        /\ DecimalLiteral(Slice(cs, 1, k))
        /\ StringToNumber(Slice(cs, 1, k)).n > 0
        /\ Len(cs) >= k + Len(u)
        /\ Slice(cs, Len(cs) - Len(u) + 1, Len(cs)) = u
        /\ \A i \in (k + 1)..(Len(cs) - Len(u)) : IsSpace(cs[i])

NumericString(v) == IsString(v) /\ DecimalLiteral(v.s)

WellFormedB(r) ==
    /\ IsString(r.id) /\ IsString(r.loggedAt) /\ IsString(r.name)
    /\ IsString(r.servingSize) /\ WellFormedServingSize(r.servingSize.s)
    /\ r.macros.t = "object"
    /\ NumericString(r.macros.protein) /\ NumericString(r.macros.carbs)
    /\ NumericString(r.macros.fat) /\ NumericString(r.calories)
    /\ Tolerated(StringToNumber(r.macros.protein.s).n,
                 StringToNumber(r.macros.carbs.s).n,
                 StringToNumber(r.macros.fat.s).n, StringToNumber(r.calories.s).n)

\* The nutrients of a list whose lowercased key is one of keys.
Keyed(list, keys) ==
    {i \in DOMAIN list : IsString(list[i].key) /\ ToLowerCase(list[i].key.s) \in keys}
\* The value (tenths) of the only nutrient of the list under keys.
OnlyValue(list, keys) == list[CHOOSE i \in Keyed(list, keys) : TRUE].value.n

\* Every nutrient has a string key and a value >= 0, and protein, carbs, fat
\* and energy are each given once.
WellFormedC(r) ==
    /\ r.item.t = "object" /\ IsString(r.item.label)
    /\ IsString(r.logged_at)
    /\ NumberFrom(r.serving_grams, 1)
    /\ r.nutrients.t = "array"
    /\ \A i \in DOMAIN r.nutrients.list :
           IsString(r.nutrients.list[i].key) /\ NumberFrom(r.nutrients.list[i].value, 0)
    /\ \A keys \in {{KeyProtein}, {KeyCarbs, KeyCarbohydrate}, {KeyFat}, {KeyEnergy}} :
           Cardinality(Keyed(r.nutrients.list, keys)) = 1
    /\ Tolerated(OnlyValue(r.nutrients.list, {KeyProtein}),
                 OnlyValue(r.nutrients.list, {KeyCarbs, KeyCarbohydrate}),
                 OnlyValue(r.nutrients.list, {KeyFat}),
                 OnlyValue(r.nutrients.list, {KeyEnergy}))

WellFormed(shape, r) ==
    CASE shape = "A" -> WellFormedA(r)
      [] shape = "B" -> WellFormedB(r)
      [] shape = "C" -> WellFormedC(r)
      [] shape = "D" -> WellFormedD(r)
      [] OTHER -> FALSE

\* The shape whose normalizer ran.
Invoked == {s \in Shapes : calls[s] > 0}

\* C5: for each shape, a record whose fields are all well-formed comes out with
\* no issues key at all.
C5_WellFormedRecordHasNoIssuesKey ==
    Succeeded =>
        \A o \in Outputs : \A s \in Invoked :
            WellFormed(s, o.raw) =>
                /\ ~o.entry.issues.present
                /\ o.entry.issues.keys = {}

\* A well-formed Shape B record was normalized (its serving size is parsed
\* from a string, its macros and calories from strings).
C5_Witness ==
    /\ Succeeded
    /\ calls["B"] > 0
    /\ \E o \in Outputs :
           /\ WellFormedB(o.raw)
           /\ o.raw.macros.protein # Str(<<"0">>)
           /\ ~o.entry.issues.present

\* The classification the claim gives: rule 3 asks for a label nested in item.
ClaimedShape(firstEntry) ==
    CASE Has(firstEntry.entryId) /\ Has(firstEntry.foodName) -> "A"
      [] Has(firstEntry.loggedAt) /\ Has(firstEntry.servingSize)
         /\ IsString(firstEntry.servingSize) -> "B"
      [] firstEntry.item.t = "object" /\ Has(firstEntry.item.label)
         /\ firstEntry.nutrients.t = "array" -> "C"
      [] Has(firstEntry.time) /\ Has(firstEntry.food) -> "D"
      [] OTHER -> "none"

\* C6: the normalizer that runs is the one the ordered rules give for the first
\* record; a first record whose item has no label is not taken for Shape C.
C6_NormalizerFollowsOrderedRules ==
    pc = "done" /\ data # <<>> =>
        \A s \in Shapes : calls[s] > 0 => ClaimedShape(data[1]) = s

\* C7: when the first record matches none of the four signatures, the call
\* raises the unrecognized-shape error and normalizes no record.
C7_NoSignatureRaisesAndReturnsNothing ==
    pc = "done" /\ data # <<>> /\ ClaimedShape(data[1]) = "none" =>
        /\ result.status = "UnknownFormat"
        /\ result.out = <<>>
        /\ calls = NoCalls

\* C8: an empty sequence gives an empty sequence, no error, and no normalizer
\* is invoked.
C8_EmptyInEmptyOut ==
    pc = "done" /\ data = <<>> =>
        /\ result = [status |-> "returned", out |-> <<>>]
        /\ calls = NoCalls

C8_Witness == pc = "done" /\ data = <<>>

\* C9: on success the output has one entry per input record, in input order,
\* each the result of the one normalizer chosen from the first record.
C9_OneEntryPerRecordInOrder ==
    Succeeded /\ data # <<>> =>
        /\ Len(result.out) = Len(data)
        /\ calls = [NoCalls EXCEPT ![DetectShape(data[1])] = Len(data)]
        /\ \A i \in DOMAIN data :
               /\ Normalize(DetectShape(data[1]), data[i]).ok
               /\ result.out[i] = Normalize(DetectShape(data[1]), data[i]).val

\* A batch of two records that differ was normalized, and its two entries differ.
C9_Witness ==
    /\ Succeeded
    /\ Len(data) >= 2
    /\ data[1] # data[2]
    /\ result.out[1] # result.out[2]

NoDuplicates(list) == Cardinality(Range(list)) = Len(list)

\* C10: in every canonical entry each of invalid, unknown and inconsistent holds
\* a field name at most once.
C10_IssueListsAreSets ==
    Succeeded =>
        \A o \in Outputs :
            /\ NoDuplicates(o.entry.issues.invalid)
            /\ NoDuplicates(o.entry.issues.unknown)
            /\ NoDuplicates(o.entry.issues.inconsistent)

\* C11: validateEntry puts 'serving' in the invalid list exactly when the unit,
\* compared without regard to case, is not one of g, ml, tbsp, or the amount is
\* not a finite number greater than zero.
RecognizedUnits == {<<"g">>, <<"m", "l">>, <<"t", "b", "s", "p">>}
RecognizedUnit(unit) == ToLowerCase(unit.s) \in RecognizedUnits
PositiveFinite(amount) == amount.t = "number" /\ amount.n > 0
ServingFlagged(entry) == "serving" \in Range(entry.issues.invalid)

SameIssues(again, first) ==
    /\ again.invalid = first.invalid
    /\ again.unknown = first.unknown
    /\ again.inconsistent = first.inconsistent
    /\ again.present = first.present

C12_ValidatorIdempotent ==
    [][pc' = "again" =>
          /\ result'.status = "returned"
          /\ Len(result'.out) = Len(result.out)
          /\ \A i \in DOMAIN result.out :
                 SameIssues(result'.out[i].issues, result.out[i].issues)]_vars

\* A record with a finding in each of the three lists, validated twice.
C12_Witness ==
    /\ pc = "again"
    /\ result.status = "returned"
    /\ \E i \in DOMAIN result.out :
          /\ result.out[i].issues.invalid # <<>>
          /\ result.out[i].issues.unknown # <<>>
          /\ result.out[i].issues.inconsistent # <<>>

\* C13: in the Shape C normalizer each of protein, carbs and fat is the value of
\* the last nutrient whose lowercased key is protein, carbohydrate or carbs,
\* fat (0 when there is none), calories is the value of the last nutrient with
\* key energy (null when there is none), 'macros' is in the unknown list exactly
\* when one of the three macros has no nutrient, and 'calories' exactly when
\* there is no energy nutrient.
ProteinKeys == {KeyProtein}
CarbsKeys == {KeyCarbohydrate, KeyCarbs}
FatKeys == {KeyFat}
EnergyKeys == {KeyEnergy}
LastKeyed(list, keys) ==
    CHOOSE i \in Keyed(list, keys) : \A j \in Keyed(list, keys) : j <= i
LastValue(list, keys, dflt) ==
    IF Keyed(list, keys) = {} THEN dflt ELSE list[LastKeyed(list, keys)].value
LastWins(list, entry) ==
    /\ entry.macros.protein = LastValue(list, ProteinKeys, Num(0))
    /\ entry.macros.carbs = LastValue(list, CarbsKeys, Num(0))
    /\ entry.macros.fat = LastValue(list, FatKeys, Num(0))
    /\ entry.calories = LastValue(list, EnergyKeys, Null)
    /\ "macros" \in Range(entry.issues.unknown)
       <=> \E keys \in {ProteinKeys, CarbsKeys, FatKeys} : Keyed(list, keys) = {}
    /\ "calories" \in Range(entry.issues.unknown)
       <=> Keyed(list, EnergyKeys) = {}

C13_ShapeCLastEntryWins ==
    Succeeded /\ calls["C"] > 0 =>
        \A o \in Outputs : LastWins(o.raw.nutrients.list, o.entry)

\* A list that gives a macro twice, with different values and keys of
\* different spelling.
C13_Witness ==
    /\ Succeeded
    /\ calls["C"] > 0
    /\ \E o \in Outputs :
          \E keys \in {ProteinKeys, CarbsKeys} :
              \E i, j \in Keyed(o.raw.nutrients.list, keys) :
                  /\ i < j
                  /\ o.raw.nutrients.list[i].value # o.raw.nutrients.list[j].value
                  /\ o.raw.nutrients.list[i].key # o.raw.nutrients.list[j].key
                  /\ LastWins(o.raw.nutrients.list, o.entry)

\* C14: parseServingSize of a string. A leading numeric token (digits with an
\* optional decimal part, taken in full), optional blanks and a non-empty unit
\* token give that number and that unit; otherwise the first numeric substring,
\* in full, is the amount and the remainder the unit ("500" gives 500);
\* without any numeric substring the amount is 1 and the unit the whole string.
\* Length of the numeric token that starts at position at, taken in full.
TokenLen(cs, at) ==
    DigitRun(cs, at)
    + (IF /\ DigitRun(cs, at) > 0
          /\ at + DigitRun(cs, at) <= Len(cs)
          /\ cs[at + DigitRun(cs, at)] = "."
          /\ DigitRun(cs, at + DigitRun(cs, at) + 1) > 0
       THEN 1 + DigitRun(cs, at + DigitRun(cs, at) + 1) ELSE 0)
\* Position of the first digit of cs, 0 when it has none.
FirstNumeric(cs) ==
    IF \E i \in DOMAIN cs : cs[i] \in Digits
    THEN CHOOSE i \in DOMAIN cs :
             cs[i] \in Digits /\ \A j \in 1..(i - 1) : cs[j] \notin Digits
    ELSE 0
\* The value of the token of length n at position at.
TokenValue(cs, at, n) == StringToNumber(Slice(cs, at, at + n - 1))
\* What is left of cs without the token.
Remainder(cs, at, n) == Trim(Slice(cs, 1, at - 1) \o Slice(cs, at + n, Len(cs)))
CleanSplit(cs) ==
    /\ TokenLen(cs, 1) > 0
    /\ Trim(Slice(cs, TokenLen(cs, 1) + 1, Len(cs))) # <<>>
ClaimedServingAt(cs, serving, at) ==
    CASE CleanSplit(cs) ->
           /\ serving.amount = TokenValue(cs, 1, TokenLen(cs, 1))
           /\ serving.unit = Str(Trim(Slice(cs, TokenLen(cs, 1) + 1, Len(cs))))
      [] ~CleanSplit(cs) /\ at > 0 ->
           /\ serving.amount = TokenValue(cs, at, TokenLen(cs, at))
           /\ Remainder(cs, at, TokenLen(cs, at)) # <<>>
              => serving.unit = Str(Remainder(cs, at, TokenLen(cs, at)))
      [] OTHER ->
           serving.amount = Num(1) /\ serving.unit = Str(cs)
ClaimedServing(cs, serving) == ClaimedServingAt(cs, serving, FirstNumeric(cs))

C14_ServingSizeParsedInFull ==
    Succeeded /\ calls["B"] > 0 =>
        \A o \in Outputs : ClaimedServing(o.raw.servingSize.s, o.entry.serving)

====
